---------------------------- MODULE Spec2Model ----------------------------
(***************************************************************************)
(* Model of add_doe_content_template.py: a MediaWiki bot that lists a      *)
(* batch of pages from a stored bookmark, scans each page's lines for      *)
(* DOE section headers without content, inserts a placeholder template     *)
(* before the header closing such a section, and finally stores the        *)
(* bookmark for the next run.                                              *)
(*                                                                         *)
(* Text is modelled as a sequence of one-character strings, so that        *)
(* split, join, strip, lower, slicing and the title regex are computed     *)
(* the way the Python code computes them.  Line numbers are 0-based, as    *)
(* in Python; the TLA+ sequence index of line i is i + 1.                  *)
(***************************************************************************)
EXTENDS Integers, Sequences, FiniteSets, TLC

(***************************************************************************)
(* Python string primitives                                                *)
(***************************************************************************)
Min(a, b) == IF a < b THEN a ELSE b

\* the characters of a text are those of U+0000..U+00FF, the range a string of
\* this module can hold; on it the three tables below are those of Python

\* the capitals str.lower() changes: A-Z and the Latin-1 capitals
UpperChars ==
    <<"A", "B", "C", "D", "E", "F", "G", "H", "I", "J", "K", "L", "M", "N", "O", "P", "Q", "R", "S", "T", "U", "V", "W", "X", "Y", "Z">>
    \o <<"À", "Á", "Â", "Ã", "Ä", "Å", "Æ", "Ç", "È", "É", "Ê", "Ë", "Ì", "Í", "Î", "Ï", "Ð", "Ñ", "Ò", "Ó", "Ô", "Õ", "Ö", "Ø", "Ù", "Ú", "Û", "Ü", "Ý", "Þ">>

\* their images by str.lower(), in the same order
LowerChars ==
    <<"a", "b", "c", "d", "e", "f", "g", "h", "i", "j", "k", "l", "m", "n", "o", "p", "q", "r", "s", "t", "u", "v", "w", "x", "y", "z">>
    \o <<"à", "á", "â", "ã", "ä", "å", "æ", "ç", "è", "é", "ê", "ë", "ì", "í", "î", "ï", "ð", "ñ", "ò", "ó", "ô", "õ", "ö", "ø", "ù", "ú", "û", "ü", "ý", "þ">>

\* the characters str.strip() removes (those for which str.isspace() holds):
\* tab, line feed, vertical tab, form feed, carriage return, the separators
\* U+001C..U+001F, space, next line U+0085 and the no-break space U+00A0
WhitespaceChars ==
    {"\t", "\n", "", "\f", "\r", "", "", "", "", " ", "", " "}

LowerChar(c) ==
    IF \E i \in 1..Len(UpperChars) : UpperChars[i] = c
    THEN LowerChars[CHOOSE i \in 1..Len(UpperChars) : UpperChars[i] = c]
    ELSE c

\* str.lower()
PyLower(s) == [i \in 1..Len(s) |-> LowerChar(s[i])]

\* str.strip(): drop the leading and the trailing whitespace
PyStrip(s) ==
    LET keep == {i \in 1..Len(s) : s[i] \notin WhitespaceChars}
    IN  IF keep = {} THEN <<>>
        ELSE LET lo == CHOOSE i \in keep : \A j \in keep : i <= j
                 hi == CHOOSE i \in keep : \A j \in keep : j <= i
             IN  SubSeq(s, lo, hi)

\* s[n:-n] for n >= 1
PySlice(s, n) ==
    IF 2 * n >= Len(s) THEN <<>> ELSE SubSeq(s, n + 1, Len(s) - n)

\* str.split('\n')
RECURSIVE PySplit(_)
PySplit(s) ==
    IF \A i \in 1..Len(s) : s[i] # "\n" THEN <<s>>
    ELSE LET k == CHOOSE i \in 1..Len(s) :
                     s[i] = "\n" /\ \A j \in 1..(i - 1) : s[j] # "\n"
         IN  <<SubSeq(s, 1, k - 1)>> \o PySplit(SubSeq(s, k + 1, Len(s)))

\* '\n'.join(lines)
RECURSIVE PyJoin(_)
PyJoin(lines) ==
    IF Len(lines) = 0 THEN <<>>
    ELSE IF Len(lines) = 1 THEN lines[1]
    ELSE lines[1] \o <<"\n">> \o PyJoin(Tail(lines))

\* list.insert(idx, x) for idx >= 0: an index past the end appends
PyInsert(lst, idx, x) ==
    IF idx >= Len(lst) THEN Append(lst, x)
    ELSE SubSeq(lst, 1, idx) \o <<x>> \o SubSeq(lst, idx + 1, Len(lst))

(***************************************************************************)
(* Module constants of the script                                          *)
(***************************************************************************)
TEMPLATE_STR == <<"{", "{", "D", "O", "E", " ", "c", "o", "n", "t", "e", "n", "t", " ", "n", "e", "e", "d", "e", "d", "}", "}">>

doe_titles ==
    { <<"t", "o", "p", "i", "c", " ", "a", "t", " ", "d", "o", "e">>,
      <<"d", "o", "e", " ", "r", "e", "l", "e", "v", "a", "n", "c", "e">> }

\* the value of PAGES_TO_GO_THROUGH the script ships with
DefaultBatch == 25

(***************************************************************************)
(* The title regex: from the start of the line a greedy run of '=' (group  *)
(* 1), a greedy run of characters other than '=' (group 2, may be empty),  *)
(* a greedy run of '=' (group 3), at most one space, the end of the line.  *)
(***************************************************************************)
\* length of the run of '=' that starts at index from (1-based)
EqRunFrom(s, from) ==
    LET stop == {i \in from..Len(s) : s[i] # "="}
    IN  IF stop = {} THEN Len(s) - from + 1
        ELSE (CHOOSE i \in stop : \A j \in stop : i <= j) - from

\* length of the run of characters other than '=' that starts at index from
NonEqRunFrom(s, from) ==
    LET stop == {i \in from..Len(s) : s[i] = "="}
    IN  IF stop = {} THEN Len(s) - from + 1
        ELSE (CHOOSE i \in stop : \A j \in stop : i <= j) - from

\* with group 1 of length g1, whether groups 2 and 3, the optional space and
\* the end of line match the rest: both groups are greedy, and no shorter
\* choice of either can reach the end of the line
TailMatches(s, g1) ==
    LET n2   == NonEqRunFrom(s, g1 + 1)
        g3   == EqRunFrom(s, g1 + n2 + 1)
        rest == Len(s) - g1 - n2 - g3
    IN  /\ g3 >= 1
        /\ \/ rest = 0
           \/ rest = 1 /\ s[Len(s)] = " "

NoMatch == [matched |-> FALSE]

\* title_search.search(line): the match object (groups 0, 1 and 3), or NoMatch.
\* Group 1 is greedy: the longest leading run of '=' that lets the rest match.
title_search(line) ==
    LET cands == {g \in 1..EqRunFrom(line, 1) : TailMatches(line, g)}
    IN  IF cands = {} THEN NoMatch
        ELSE LET g1 == CHOOSE g \in cands : \A h \in cands : h <= g
                 n2 == NonEqRunFrom(line, g1 + 1)
                 g3 == EqRunFrom(line, g1 + n2 + 1)
             IN  [matched |-> TRUE,
                  group0  |-> line,
                  group1  |-> SubSeq(line, 1, g1),
                  group3  |-> SubSeq(line, g1 + n2 + 1, g1 + n2 + g3)]

detect_general_title(line) == title_search(line).matched

\* true_name without the lower(): the comparison is case-sensitive
true_name_cased(m) ==
    PyStrip(PySlice(m.group0, Min(Len(m.group1), Len(m.group3))))

\* the normalised header name: m.group(0)[true_level:-true_level].strip().lower()
true_name(m) ==
    LET start_level == Len(m.group1)
        end_level   == Len(m.group3)
        true_level  == Min(start_level, end_level)
    IN  PyLower(PyStrip(PySlice(m.group0, true_level)))

detect_doe_header(line) ==
    LET m == title_search(line)
    IN  IF ~m.matched THEN FALSE ELSE true_name(m) \in doe_titles

(***************************************************************************)
(* State                                                                   *)
(***************************************************************************)
VARIABLES
    wiki,                     \* the site: page title |-> page.text
    revisions,                \* the site: page title |-> saves made by the bot
    storage_text,             \* page.text of the page titled STORAGE_PAGE
    PAGES_TO_GO_THROUGH,      \* the batch size the script is configured with
    pc,                       \* the statement of run / main_function reached
    start_page_title,         \* run: local
    last_page_seen,           \* run: local; main_function's page_title
    pages_to_run,             \* run: local, the titles the listing returned
    page_idx,                 \* run: pages of pages_to_run the loop has taken
    page_lines,               \* main_function: local
    lines_to_insert,          \* main_function: local, 0-based line numbers
    in_doe_header,            \* main_function: local
    this_section_has_content, \* main_function: local
    line_no,                  \* main_function: lines the scan has consumed
    templates_inserted        \* main_function: local

vars == <<wiki, revisions, storage_text, PAGES_TO_GO_THROUGH, pc, start_page_title,
          last_page_seen, pages_to_run, page_idx, page_lines, lines_to_insert,
          in_doe_header, this_section_has_content, line_no, templates_inserted>>

run_locals == <<start_page_title, last_page_seen, pages_to_run, page_idx>>

main_locals == <<page_lines, lines_to_insert, in_doe_header,
                 this_section_has_content, line_no, templates_inserted>>

site == <<wiki, revisions, storage_text, PAGES_TO_GO_THROUGH>>

(***************************************************************************)
(* The wiki's listing: titles in title order                               *)
(***************************************************************************)
CharRank(c) ==
    IF \E i \in 1..Len(UpperChars) : UpperChars[i] = c
    THEN CHOOSE i \in 1..Len(UpperChars) : UpperChars[i] = c
    ELSE 0

RECURSIVE TitleLeq(_, _)
TitleLeq(a, b) ==
    IF Len(a) = 0 THEN TRUE
    ELSE IF Len(b) = 0 THEN FALSE
    ELSE IF Head(a) = Head(b) THEN TitleLeq(Tail(a), Tail(b))
    ELSE CharRank(Head(a)) < CharRank(Head(b))

RECURSIVE SortedTitles(_)
SortedTitles(S) ==
    IF S = {} THEN <<>>
    ELSE LET t == CHOOSE x \in S : \A y \in S : TitleLeq(x, y)
         IN  <<t>> \o SortedTitles(S \ {t})

\* the first n elements of a sequence
Take(s, n) == SubSeq(s, 1, Min(n, Len(s)))

\* pages_from(start_point): list=allpages with apfrom=start_point and
\* aplimit=PAGES_TO_GO_THROUGH, the titles at or after start_point in order
pages_from(start_point) ==
    Take(SortedTitles({t \in DOMAIN wiki : TitleLeq(start_point, t)}),
         PAGES_TO_GO_THROUGH)

\* get_page_start(): the first line of the storage page
get_page_start == PySplit(storage_text)[1]

\* _get_page_text(page_name)
get_page_text(page_name) == PySplit(wiki[page_name])

(***************************************************************************)
(* main_function: one iteration of the scan loop                           *)
(***************************************************************************)
\* has_text without the strip: whitespace counts as text
has_text_unstripped(line) == Len(line) > 0

\* len(line.strip()) > 0
has_text(line) == Len(PyStrip(line)) > 0

\* The scan state st = [in_doe_header, this_section_has_content,
\* lines_to_insert].  Outside a DOE section: a DOE header enters one.
ScanOutside(st, line) ==
    IF detect_doe_header(line)
    THEN [st EXCEPT !.in_doe_header = TRUE,
                    !.this_section_has_content = FALSE]
    ELSE st

\* ScanHeader with the re-initialisation tested first and the recording in its
\* else branch: a DOE header closing an empty DOE section records nothing
ScanHeaderElif(st, n, line) ==
    IF detect_doe_header(line)
    THEN [st EXCEPT !.in_doe_header = TRUE, !.this_section_has_content = FALSE]
    ELSE IF ~st.this_section_has_content
         THEN [st EXCEPT !.lines_to_insert = Append(st.lines_to_insert, n)]
         ELSE st

\* ScanHeader recording the 1-based line number n + 1
ScanHeaderOneBased(st, n, line) ==
    LET added == IF ~st.this_section_has_content
                 THEN Append(st.lines_to_insert, n + 1)
                 ELSE st.lines_to_insert
    IN  IF detect_doe_header(line)
        THEN [in_doe_header            |-> TRUE,
              this_section_has_content |-> FALSE,
              lines_to_insert          |-> added]
        ELSE [st EXCEPT !.lines_to_insert = added]

\* Inside a DOE section, on a title line: record line n if no content was
\* seen, and re-initialise the flags if the title is a DOE header.
ScanHeader(st, n, line) ==
    LET added == IF ~st.this_section_has_content
                 THEN Append(st.lines_to_insert, n)
                 ELSE st.lines_to_insert
    IN  IF detect_doe_header(line)
        THEN [in_doe_header            |-> TRUE,
              this_section_has_content |-> FALSE,
              lines_to_insert          |-> added]
        ELSE [st EXCEPT !.lines_to_insert = added]

\* ScanBody assigning the flag on every line: a blank line resets it
ScanBodyAssign(st, line) ==
    [st EXCEPT !.this_section_has_content = has_text(line)]

\* Inside a DOE section, on a line that is no title: text counts as content.
ScanBody(st, line) ==
    IF has_text(line)
    THEN [st EXCEPT !.this_section_has_content = TRUE]
    ELSE st

\* ScanStep without the test of in_doe_header: every title line is treated as
\* closing a section
ScanStepAlwaysInside(st, n, line) ==
    IF detect_general_title(line)
    THEN ScanHeader(st, n, line)
    ELSE ScanBody(st, line)

\* the body of "for line_no, line in enumerate(page_lines)"
ScanStep(st, n, line) ==
    IF ~st.in_doe_header
    THEN ScanOutside(st, line)
    ELSE IF detect_general_title(line)
         THEN ScanHeader(st, n, line)
         ELSE ScanBody(st, line)

ScanInit ==
    [in_doe_header |-> FALSE, this_section_has_content |-> FALSE,
     lines_to_insert |-> <<>>]

\* the scan state after the first n lines of a page
RECURSIVE ScanPrefix(_, _)
ScanPrefix(lines, n) ==
    IF n = 0 THEN ScanInit
    ELSE ScanStep(ScanPrefix(lines, n - 1), n - 1, lines[n])

\* lines_to_insert when the scan loop of main_function ends
ScanPlan(lines) == ScanPrefix(lines, Len(lines)).lines_to_insert

(***************************************************************************)
(* run and main_function, one action per statement that touches the site   *)
(* or advances a loop                                                      *)
(***************************************************************************)
\* run: start_page_title = self.get_page_start(); last_page_seen = ""
GetPageStart ==
    /\ pc = "get_page_start"
    /\ start_page_title' = get_page_start
    /\ last_page_seen' = <<>>
    /\ pc' = "pages_from"
    /\ UNCHANGED <<site, pages_to_run, page_idx, main_locals>>

\* run: pages_to_run = self.pages_from(start_page_title)
PagesFrom ==
    /\ pc = "pages_from"
    /\ pages_to_run' = pages_from(start_page_title)
    /\ page_idx' = 0
    /\ pc' = "for_page"
    /\ UNCHANGED <<site, start_page_title, last_page_seen, main_locals>>

\* LoopNext storing the bookmark as soon as a page is taken
LoopNextStoring ==
    /\ pc = "for_page"
    /\ page_idx < Len(pages_to_run)
    /\ last_page_seen' = pages_to_run[page_idx + 1]
    /\ storage_text' = pages_to_run[page_idx + 1]
    /\ page_idx' = page_idx + 1
    /\ pc' = "get_page_text"
    /\ UNCHANGED <<wiki, revisions, PAGES_TO_GO_THROUGH, start_page_title,
                   pages_to_run, main_locals>>

\* run: the for loop takes the next page; last_page_seen = page['title']
LoopNext ==
    /\ pc = "for_page"
    /\ page_idx < Len(pages_to_run)
    /\ last_page_seen' = pages_to_run[page_idx + 1]
    /\ page_idx' = page_idx + 1
    /\ pc' = "get_page_text"
    /\ UNCHANGED <<site, start_page_title, pages_to_run, main_locals>>

\* LoopEnd leaving the loop after the first page (the bookmark code indented
\* into the loop body behind a break)
LoopEndEarly ==
    /\ pc = "for_page"
    /\ page_idx >= Min(1, Len(pages_to_run))
    /\ pc' = "set_page_start"
    /\ UNCHANGED <<site, run_locals, main_locals>>

\* run: the for loop is exhausted
LoopEnd ==
    /\ pc = "for_page"
    /\ page_idx = Len(pages_to_run)
    /\ pc' = "set_page_start"
    /\ UNCHANGED <<site, run_locals, main_locals>>

\* main_function: read the page and initialise the scan
GetPageText ==
    /\ pc = "get_page_text"
    /\ page_lines' = get_page_text(last_page_seen)
    /\ lines_to_insert' = <<>>
    /\ in_doe_header' = FALSE
    /\ this_section_has_content' = FALSE
    /\ line_no' = 0
    /\ templates_inserted' = 0
    /\ pc' = "scan"
    /\ UNCHANGED <<site, run_locals>>

\* main_function: one iteration of the scan loop
ScanLine ==
    /\ pc = "scan"
    /\ line_no < Len(page_lines)
    /\ LET st == ScanStep([in_doe_header            |-> in_doe_header,
                           this_section_has_content |-> this_section_has_content,
                           lines_to_insert          |-> lines_to_insert],
                          line_no, page_lines[line_no + 1])
       IN  /\ in_doe_header' = st.in_doe_header
           /\ this_section_has_content' = st.this_section_has_content
           /\ lines_to_insert' = st.lines_to_insert
    /\ line_no' = line_no + 1
    /\ UNCHANGED <<site, run_locals, pc, page_lines, templates_inserted>>

\* main_function: "if lines_to_insert:" holds; templates_inserted = 0
BeginInsert ==
    /\ pc = "scan"
    /\ line_no = Len(page_lines)
    /\ lines_to_insert # <<>>
    /\ templates_inserted' = 0
    /\ pc' = "insert"
    /\ UNCHANGED <<site, run_locals, page_lines, lines_to_insert,
                   in_doe_header, this_section_has_content, line_no>>

\* NoInsert with the save outside the "if lines_to_insert:" block
NoInsertSaving ==
    /\ pc = "scan"
    /\ line_no = Len(page_lines)
    /\ lines_to_insert = <<>>
    /\ wiki' = [wiki EXCEPT ![last_page_seen] = PyJoin(page_lines)]
    /\ revisions' = [revisions EXCEPT ![last_page_seen] = @ + 1]
    /\ pc' = "for_page"
    /\ UNCHANGED <<storage_text, PAGES_TO_GO_THROUGH, run_locals, main_locals>>

\* main_function: lines_to_insert is empty, return without a save
NoInsert ==
    /\ pc = "scan"
    /\ line_no = Len(page_lines)
    /\ lines_to_insert = <<>>
    /\ pc' = "for_page"
    /\ UNCHANGED <<site, run_locals, main_locals>>

\* InsertTemplate without the shift by the templates already inserted
InsertTemplateNoShift ==
    /\ pc = "insert"
    /\ templates_inserted < Len(lines_to_insert)
    /\ page_lines' = PyInsert(page_lines,
                              lines_to_insert[templates_inserted + 1],
                              TEMPLATE_STR)
    /\ templates_inserted' = templates_inserted + 1
    /\ UNCHANGED <<site, run_locals, pc, lines_to_insert, in_doe_header,
                   this_section_has_content, line_no>>

\* InsertTemplate placing the template below the closing header
InsertTemplateBelow ==
    /\ pc = "insert"
    /\ templates_inserted < Len(lines_to_insert)
    /\ page_lines' = PyInsert(page_lines,
                              lines_to_insert[templates_inserted + 1]
                                  + templates_inserted + 1,
                              TEMPLATE_STR)
    /\ templates_inserted' = templates_inserted + 1
    /\ UNCHANGED <<site, run_locals, pc, lines_to_insert, in_doe_header,
                   this_section_has_content, line_no>>

\* main_function: one iteration of the insertion loop
InsertTemplate ==
    /\ pc = "insert"
    /\ templates_inserted < Len(lines_to_insert)
    /\ page_lines' = PyInsert(page_lines,
                              lines_to_insert[templates_inserted + 1]
                                  + templates_inserted,
                              TEMPLATE_STR)
    /\ templates_inserted' = templates_inserted + 1
    /\ UNCHANGED <<site, run_locals, pc, lines_to_insert, in_doe_header,
                   this_section_has_content, line_no>>

\* main_function: page.text = '\n'.join(page_lines); page.save(...)
SavePage ==
    /\ pc = "insert"
    /\ templates_inserted = Len(lines_to_insert)
    /\ wiki' = [wiki EXCEPT ![last_page_seen] = PyJoin(page_lines)]
    /\ revisions' = [revisions EXCEPT ![last_page_seen] = @ + 1]
    /\ pc' = "for_page"
    /\ UNCHANGED <<storage_text, PAGES_TO_GO_THROUGH, run_locals, main_locals>>

\* SetPageStartWrap comparing with <= : a full batch wraps too
SetPageStartWrapInclusive ==
    /\ pc = "set_page_start"
    /\ Len(pages_to_run) <= PAGES_TO_GO_THROUGH
    /\ storage_text' = <<>>
    /\ pc' = "done"
    /\ UNCHANGED <<wiki, revisions, PAGES_TO_GO_THROUGH, run_locals, main_locals>>

\* run: fewer pages than the batch size, self.set_page_start("")
SetPageStartWrap ==
    /\ pc = "set_page_start"
    /\ Len(pages_to_run) < PAGES_TO_GO_THROUGH
    /\ storage_text' = <<>>
    /\ pc' = "done"
    /\ UNCHANGED <<wiki, revisions, PAGES_TO_GO_THROUGH, run_locals, main_locals>>

\* run: a full batch, self.set_page_start(last_page_seen)
SetPageStartLast ==
    /\ pc = "set_page_start"
    /\ ~(Len(pages_to_run) < PAGES_TO_GO_THROUGH)
    /\ storage_text' = last_page_seen
    /\ pc' = "done"
    /\ UNCHANGED <<wiki, revisions, PAGES_TO_GO_THROUGH, run_locals, main_locals>>

\* a call to the site raises (the read of the bookmark, the listing request,
\* the read of a page, a page.save): nothing catches it, the run ends there
Fail ==
    /\ \/ pc \in {"get_page_start", "pages_from", "get_page_text", "set_page_start"}
       \/ pc = "insert" /\ templates_inserted = Len(lines_to_insert)
    /\ pc' = "failed"
    /\ UNCHANGED <<site, run_locals, main_locals>>

\* the script is started again: bot.run() of a new process
StartRun ==
    /\ pc \in {"done", "failed"}
    /\ pc' = "get_page_start"
    /\ start_page_title' = <<>>
    /\ last_page_seen' = <<>>
    /\ pages_to_run' = <<>>
    /\ page_idx' = 0
    /\ page_lines' = <<>>
    /\ lines_to_insert' = <<>>
    /\ in_doe_header' = FALSE
    /\ this_section_has_content' = FALSE
    /\ line_no' = 0
    /\ templates_inserted' = 0
    /\ UNCHANGED site

Next ==
    \/ GetPageStart
    \/ PagesFrom
    \/ LoopNext
    \/ LoopEnd
    \/ GetPageText
    \/ ScanLine
    \/ BeginInsert
    \/ NoInsert
    \/ InsertTemplate
    \/ SavePage
    \/ SetPageStartWrap
    \/ SetPageStartLast
    \/ Fail
    \/ StartRun

(***************************************************************************)
(* Initial states                                                          *)
(***************************************************************************)
NumTitles == 3
MaxBatch == 2
MaxLines == 4
MaxLevel == 2

AllTitles == {<<UpperChars[i]>> : i \in 1..NumTitles}

\* PAGES_TO_GO_THROUGH is one of the script's constants that "can be changed by
\* the user as needed"; it is fixed for a behaviour and drawn from this set:
\* the small batch sizes and the shipped one
BatchSizes == (1..MaxBatch) \cup {DefaultBatch}

L_DOE == <<"=", "=", " ", "T", "o", "p", "i", "c", " ", "a", "t", " ", "D", "O", "E", " ", "=", "=">>
L_HDR == <<"=", "=", " ", "S", "e", "e", " ", "A", "l", "s", "o", " ", "=", "=">>
L_TEXT == <<"t", "e", "x", "t">>
L_EMPTY == <<>>
\* a line of whitespace only: space, tab, no-break space
L_SPACES == <<" ", "\t", " ">>

LineSet == {L_DOE, L_HDR, L_TEXT, L_EMPTY, L_SPACES}

\* every page of 1..MaxLines lines over LineSet
Pages == UNION {[1..n -> LineSet] : n \in 1..MaxLines}

\* an 8-line page with two empty DOE sections, closed at lines 2 and 5
ExamplePage == <<L_DOE, L_EMPTY, L_DOE, L_EMPTY, L_EMPTY, L_HDR, L_TEXT, L_TEXT>>

\* '=' repeated n times
EqRun(n) == [i \in 1..n |-> "="]

HeaderNames ==
    { <<"T", "o", "p", "i", "c", " ", "a", "t", " ", "D", "O", "E">>,
      <<"D", "O", "E", " ", "R", "e", "l", "e", "v", "a", "n", "c", "e">>,
      <<"t", "o", "p", "i", "c", " ", "a", "t", " ", "d", "o", "e">>,
      <<"t", "o", "p", "i", "c", " ", " ", "a", "t", " ", "d", "o", "e">>,
      <<"S", "e", "e", " ", "A", "l", "s", "o">>,
      <<"D", "O", "É">>,
      <<>> }

\* whitespace around a header name: none, a space, no-break space with tab and
\* vertical tab
Paddings == {<<>>, <<" ">>, <<" ", "\t", "">>}

LineTails == {<<>>, <<" ">>, <<" ", " ">>, <<"\t">>}

\* header-like lines: markers of 0..MaxLevel and 0..MaxLevel+1 '=', padding
\* inside the markers, something after the closing marker
HeaderLines ==
    { EqRun(a) \o p \o nm \o q \o EqRun(b) \o t :
        a \in 0..MaxLevel, b \in 0..(MaxLevel + 1), p \in Paddings,
        q \in Paddings, nm \in HeaderNames, t \in LineTails }

ScanTexts ==
    {PyJoin(p) : p \in Pages \cup {ExamplePage}} \cup HeaderLines

\* the page texts of the wikis the runs are explored on
RunTexts == {PyJoin(<<L_DOE, L_HDR>>), L_TEXT}

LocalsInit ==
    /\ revisions = [t \in DOMAIN wiki |-> 0]
    /\ pc = "get_page_start"
    /\ start_page_title = <<>>
    /\ last_page_seen = <<>>
    /\ pages_to_run = <<>>
    /\ page_idx = 0
    /\ page_lines = <<>>
    /\ lines_to_insert = <<>>
    /\ in_doe_header = FALSE
    /\ this_section_has_content = FALSE
    /\ line_no = 0
    /\ templates_inserted = 0

\* a wiki of up to NumTitles pages, a bookmark left by an earlier run
Init ==
    /\ wiki \in UNION {[S -> RunTexts] : S \in SUBSET AllTitles}
    /\ storage_text \in {<<>>} \cup AllTitles
    /\ PAGES_TO_GO_THROUGH \in BatchSizes
    /\ LocalsInit

Spec == Init /\ [][Next]_vars

\* runs in which no call to the site raises
NextRuns ==
    \/ GetPageStart
    \/ PagesFrom
    \/ LoopNext
    \/ LoopEnd
    \/ GetPageText
    \/ ScanLine
    \/ BeginInsert
    \/ NoInsert
    \/ InsertTemplate
    \/ SavePage
    \/ SetPageStartWrap
    \/ SetPageStartLast
    \/ StartRun

\* a wiki of up to NumTitles pages and an empty bookmark
InitRuns ==
    /\ wiki \in UNION {[S -> RunTexts] : S \in SUBSET AllTitles}
    /\ storage_text = <<>>
    /\ PAGES_TO_GO_THROUGH \in BatchSizes
    /\ LocalsInit

\* successful runs, one after the other: the script is synchronous, each of
\* its statements is reached, and the job is scheduled again after each run
SpecRuns == InitRuns /\ [][NextRuns]_vars /\ WF_vars(NextRuns)

\* one page of arbitrary text, no bookmark yet
InitScan ==
    /\ wiki \in [{<<"A">>} -> ScanTexts]
    /\ storage_text = <<>>
    /\ PAGES_TO_GO_THROUGH \in BatchSizes
    /\ LocalsInit

SpecScan == InitScan /\ [][Next]_vars

TypeOK ==
    /\ pc \in {"get_page_start", "pages_from", "for_page", "get_page_text",
               "scan", "insert", "set_page_start", "done", "failed"}
    /\ PAGES_TO_GO_THROUGH \in BatchSizes
    /\ DOMAIN revisions = DOMAIN wiki
    /\ page_idx \in 0..Len(pages_to_run)
    /\ line_no \in 0..Len(page_lines)
    /\ templates_inserted \in 0..Len(lines_to_insert)
    /\ in_doe_header \in BOOLEAN
    /\ this_section_has_content \in BOOLEAN

(***************************************************************************)
(* Vocabulary of the properties: lines are numbered from 0                 *)
(***************************************************************************)
LineAt(lines, i) == lines[i + 1]

IsHeaderAt(lines, i) == detect_general_title(LineAt(lines, i))

IsDoeAt(lines, i) == detect_doe_header(LineAt(lines, i))

\* empty or made of whitespace only
BlankLine(line) == \A k \in 1..Len(line) : line[k] \in WhitespaceChars

\* every line strictly between lines d and h is blank
BlankBetween(lines, d, h) ==
    \A j \in (d + 1)..(h - 1) : BlankLine(LineAt(lines, j))

\* no line strictly between lines d and h is a header
NoHeaderBetween(lines, d, h) ==
    \A j \in (d + 1)..(h - 1) : ~IsHeaderAt(lines, j)

Range(s) == {s[k] : k \in 1..Len(s)}

RECURSIVE Ascending(_)
Ascending(S) ==
    IF S = {} THEN <<>>
    ELSE LET x == CHOOSE a \in S : \A b \in S : a <= b
         IN  <<x>> \o Ascending(S \ {x})

\* the scan loop of main_function has consumed every line of the page
ScanDone == pc = "scan" /\ line_no = Len(page_lines)

\* the header lines that close an empty section opened by a DOE header
EmptyDoeClosers(lines) ==
    {i \in 0..(Len(lines) - 1) :
        /\ IsHeaderAt(lines, i)
        /\ \E d \in 0..(i - 1) : IsDoeAt(lines, d) /\ BlankBetween(lines, d, i)}

(***************************************************************************)
(* C1: the insertion plan of a page is exactly the ascending list of the   *)
(* header lines whose nearest preceding header is a DOE header with only   *)
(* blank lines in between.  The code keeps in_doe_header set after a       *)
(* header that is no DOE header, so it reports further lines.              *)
(***************************************************************************)
C1_PlanIsEmptyDoeClosers ==
    ScanDone => lines_to_insert = Ascending(EmptyDoeClosers(page_lines))

(***************************************************************************)
(* C2: once the scan has passed a header h that follows a DOE header d     *)
(* with nothing but blank (empty or whitespace-only) lines in between, h   *)
(* is in the insertion plan.                                               *)
(***************************************************************************)
C2_BlankSectionInserted ==
    pc = "scan" =>
        \A d \in 0..(line_no - 1) : \A h \in (d + 1)..(line_no - 1) :
            ( /\ IsDoeAt(page_lines, d)
              /\ IsHeaderAt(page_lines, h)
              /\ BlankBetween(page_lines, d, h) )
            => h \in Range(lines_to_insert)

C2_Witness ==
    /\ ScanDone
    /\ \E d \in 0..(line_no - 1) : \E h \in (d + 2)..(line_no - 1) :
          /\ IsDoeAt(page_lines, d)
          /\ IsHeaderAt(page_lines, h)
          /\ BlankBetween(page_lines, d, h)
          /\ \E j \in (d + 1)..(h - 1) : Len(LineAt(page_lines, j)) > 0
          /\ h \in Range(lines_to_insert)

(***************************************************************************)
(* C3: once the scan has passed the header h that closes the section of a  *)
(* DOE header d, if a line of that section has non-whitespace text then h  *)
(* is not in the insertion plan, whatever blank lines follow the text.     *)
(***************************************************************************)
C3_ContentSuppressesInsertion ==
    pc = "scan" =>
        \A d \in 0..(line_no - 1) : \A h \in (d + 1)..(line_no - 1) :
            ( /\ IsDoeAt(page_lines, d)
              /\ IsHeaderAt(page_lines, h)
              /\ NoHeaderBetween(page_lines, d, h)
              /\ ~BlankBetween(page_lines, d, h) )
            => h \notin Range(lines_to_insert)

C3_Witness ==
    /\ ScanDone
    /\ \E d \in 0..(line_no - 1) : \E h \in (d + 3)..(line_no - 1) :
          /\ IsDoeAt(page_lines, d)
          /\ IsHeaderAt(page_lines, h)
          /\ NoHeaderBetween(page_lines, d, h)
          /\ ~BlankLine(LineAt(page_lines, d + 1))
          /\ BlankLine(LineAt(page_lines, h - 1))
          /\ h \notin Range(lines_to_insert)

(***************************************************************************)
(* C4: a scan step that meets a DOE header inside a DOE section records    *)
(* the line if the section had no content and leaves the scanner inside a  *)
(* section without content; and for a chain of k empty DOE sections, from  *)
(* DOE header d to the header h closing the last of them, the plan holds   *)
(* between d and h exactly the k closing headers.                          *)
(***************************************************************************)
\* d..h is a chain: every header from d up to h (h excluded) is a DOE header
\* and every other line between d and h is blank
DoeChain(lines, d, h) ==
    /\ IsDoeAt(lines, d)
    /\ IsHeaderAt(lines, h)
    /\ \A j \in (d + 1)..(h - 1) :
          IF IsHeaderAt(lines, j) THEN IsDoeAt(lines, j)
          ELSE BlankLine(LineAt(lines, j))

C4_ChainPlan ==
    pc = "scan" =>
        \A d \in 0..(line_no - 1) : \A h \in (d + 1)..(line_no - 1) :
            DoeChain(page_lines, d, h) =>
                /\ {x \in Range(lines_to_insert) : d < x /\ x <= h}
                      = {j \in (d + 1)..h : IsHeaderAt(page_lines, j)}
                /\ Cardinality({k \in 1..Len(lines_to_insert) :
                                   d < lines_to_insert[k] /\ lines_to_insert[k] <= h})
                      = Cardinality({j \in d..(h - 1) : IsDoeAt(page_lines, j)})

C4_DoeHeaderStep ==
    ( /\ pc = "scan" /\ pc' = "scan" /\ line_no' = line_no + 1
      /\ in_doe_header
      /\ IsDoeAt(page_lines, line_no) )
    => /\ in_doe_header'
       /\ ~this_section_has_content'
       /\ lines_to_insert' = IF this_section_has_content THEN lines_to_insert
                             ELSE Append(lines_to_insert, line_no)

C4_ChainedDoeSections == [](C4_ChainPlan) /\ [][C4_DoeHeaderStep]_vars

\* header, header, header, content: two insertion points, at lines 1 and 2
C4_Witness ==
    /\ ScanDone
    /\ Len(page_lines) = 4
    /\ IsDoeAt(page_lines, 0) /\ IsDoeAt(page_lines, 1)
    /\ IsHeaderAt(page_lines, 2)
    /\ ~BlankLine(LineAt(page_lines, 3)) /\ ~IsHeaderAt(page_lines, 3)
    /\ lines_to_insert = <<1, 2>>

(***************************************************************************)
(* C5: the end of the page closes no section: every line number in the     *)
(* plan is that of a header line of the page, and a page whose only DOE    *)
(* header is its last header gets an empty plan and is not modified.       *)
(***************************************************************************)
\* the page has exactly one DOE header and no header after it
OnlyDoeHeaderIsLastHeader(lines) ==
    \E d \in 0..(Len(lines) - 1) :
        /\ IsDoeAt(lines, d)
        /\ \A j \in 0..(Len(lines) - 1) : IsDoeAt(lines, j) => j = d
        /\ \A j \in (d + 1)..(Len(lines) - 1) : ~IsHeaderAt(lines, j)

C5_EndOfPageClosesNothing ==
    /\ pc = "scan" =>
          /\ \A x \in Range(lines_to_insert) :
                x \in 0..(Len(page_lines) - 1) /\ IsHeaderAt(page_lines, x)
          /\ OnlyDoeHeaderIsLastHeader(page_lines) => lines_to_insert = <<>>
    /\ pc = "insert" =>
          ~OnlyDoeHeaderIsLastHeader(get_page_text(last_page_seen))

\* a page ends inside a DOE section without content and keeps its text
C5_Witness ==
    /\ pc = "for_page" /\ page_idx > 0
    /\ in_doe_header /\ ~this_section_has_content
    /\ OnlyDoeHeaderIsLastHeader(page_lines)
    /\ Len(page_lines) > 1
    /\ lines_to_insert = <<>>
    /\ revisions[last_page_seen] = 0
    /\ page_lines = get_page_text(last_page_seen)

(***************************************************************************)
(* C6: when the insertion loop ends, the k-th template (from 0) stands at  *)
(* line idx_k + k, directly above the original line idx_k; the page has    *)
(* grown by the length of the plan; and the lines other than the inserted  *)
(* ones are the original lines in order.                                   *)
(***************************************************************************)
InsertDone == pc = "insert" /\ templates_inserted = Len(lines_to_insert)

\* the final line numbers of the inserted templates
InsertedAt(plan) == {plan[k + 1] + k : k \in 0..(Len(plan) - 1)}

\* lines without the lines whose numbers are in S
RECURSIVE WithoutLines(_, _, _)
WithoutLines(lines, S, i) ==
    IF i >= Len(lines) THEN <<>>
    ELSE (IF i \in S THEN <<>> ELSE <<LineAt(lines, i)>>)
             \o WithoutLines(lines, S, i + 1)

C6_InsertionPlacement ==
    InsertDone =>
        LET orig == get_page_text(last_page_seen)
            plan == lines_to_insert
        IN  /\ Len(page_lines) = Len(orig) + Len(plan)
            /\ \A k \in 0..(Len(plan) - 1) :
                  /\ LineAt(page_lines, plan[k + 1] + k) = TEMPLATE_STR
                  /\ LineAt(page_lines, plan[k + 1] + k + 1) = LineAt(orig, plan[k + 1])
            /\ WithoutLines(page_lines, InsertedAt(plan), 0) = orig

\* plan [2, 5] on 8 lines: templates at final lines 2 and 6
C6_Witness ==
    /\ InsertDone
    /\ lines_to_insert = <<2, 5>>
    /\ Len(get_page_text(last_page_seen)) = 8
    /\ Len(page_lines) = 10
    /\ LineAt(page_lines, 2) = TEMPLATE_STR
    /\ LineAt(page_lines, 6) = TEMPLATE_STR

(***************************************************************************)
(* C7: when a run completes, the stored bookmark is empty if the listing   *)
(* returned fewer titles than the batch size (no page was processed if it  *)
(* returned none), and is otherwise the last title returned, which is the  *)
(* last page the run processed.                                            *)
(***************************************************************************)
C7_BookmarkAtEnd ==
    pc = "done" =>
        /\ page_idx = Len(pages_to_run)
        /\ IF Len(pages_to_run) < PAGES_TO_GO_THROUGH
           THEN storage_text = <<>>
           ELSE /\ storage_text = pages_to_run[Len(pages_to_run)]
                /\ storage_text = last_page_seen
        /\ Len(pages_to_run) = 0 =>
              /\ storage_text = <<>>
              /\ last_page_seen = <<>>
              /\ page_lines = <<>>

\* a full batch of two pages: the bookmark is the second title
C7_Witness ==
    /\ pc = "done"
    /\ Len(pages_to_run) = 2
    /\ PAGES_TO_GO_THROUGH = 2
    /\ storage_text = pages_to_run[2]
    /\ start_page_title # storage_text

(***************************************************************************)
(* C8: no step other than the one that completes a run changes the stored  *)
(* bookmark, so a run that fails leaves it as it was; and from the read of *)
(* the bookmark until the run completes the stored bookmark is the start   *)
(* title the run used, which is what the next run will request from.       *)
(***************************************************************************)
C8_BookmarkKept ==
    pc \in {"pages_from", "for_page", "get_page_text", "scan", "insert",
            "set_page_start"}
        => get_page_start = start_page_title

C8_OnlyCompletionWrites == pc' # "done" => storage_text' = storage_text

C8_FailureKeepsBookmark == [](C8_BookmarkKept) /\ [][C8_OnlyCompletionWrites]_vars

\* the save of the second page of a batch fails after the first was saved
C8_Witness ==
    /\ pc = "failed"
    /\ page_idx = 2
    /\ revisions[pages_to_run[1]] > 0
    /\ lines_to_insert # <<>>
    /\ templates_inserted = Len(lines_to_insert)
    /\ wiki[last_page_seen] # PyJoin(page_lines)
    /\ storage_text = start_page_title
    /\ storage_text # <<>>

(***************************************************************************)
(* C9: the text main_function is about to save has an empty insertion      *)
(* plan; a page the bot has saved is scanned to an empty plan in every     *)
(* later run; so no page is saved more than once, and the templates of a   *)
(* page do not grow across runs.                                           *)
(***************************************************************************)
C9_Idempotent ==
    /\ InsertDone => ScanPlan(PySplit(PyJoin(page_lines))) = <<>>
    /\ (ScanDone /\ revisions[last_page_seen] > 0) => lines_to_insert = <<>>
    /\ \A t \in DOMAIN wiki : revisions[t] <= 1

\* a later run has scanned again a page the bot had saved, templates included
C9_Witness ==
    /\ ScanDone
    /\ revisions[last_page_seen] = 1
    /\ Cardinality({i \in 1..Len(page_lines) : page_lines[i] = TEMPLATE_STR}) = 2
    /\ lines_to_insert = <<>>

(***************************************************************************)
(* C10: a line that matches the title pattern is a DOE header iff the text *)
(* between its first level and last level characters, trimmed and in lower *)
(* case, is one of the two DOE names, level being the smaller of the       *)
(* lengths of its leading and trailing runs of '='; a DOE name in another  *)
(* letter case or padded with whitespace inside balanced markers is        *)
(* recognised; and a DOE header is always a general header.                *)
(***************************************************************************)
\* the number of '=' the line starts with
LeadingEqs(line) ==
    Cardinality({n \in 1..Len(line) : \A j \in 1..n : line[j] = "="})

\* the line without the one space the pattern allows at its end
WithoutEndSpace(line) ==
    IF Len(line) > 0 /\ line[Len(line)] = " "
    THEN SubSeq(line, 1, Len(line) - 1) ELSE line

\* the number of '=' the line ends with, before the optional space
TrailingEqs(line) ==
    LET body == WithoutEndSpace(line)
    IN  Cardinality({n \in 1..Len(body) :
                        \A j \in (Len(body) - n + 1)..Len(body) : body[j] = "="})

MarkerLevel(line) ==
    IF LeadingEqs(line) <= TrailingEqs(line)
    THEN LeadingEqs(line) ELSE TrailingEqs(line)

\* the text between the first level and the last level characters of the
\* line, trimmed and lower-cased
EnclosedName(line) ==
    LET level == MarkerLevel(line)
        inner == [i \in 1..(Len(line) - 2 * level) |-> line[level + i]]
    IN  PyLower(PyStrip(inner))

\* markers of the same length k around a DOE name in any letter case, padded
\* with any whitespace
BalancedDoeVariant(line) ==
    \E k \in 1..Len(line) :
        /\ Len(line) > 2 * k
        /\ \A j \in 1..k : line[j] = "=" /\ line[Len(line) - j + 1] = "="
        /\ \A j \in (k + 1)..(Len(line) - k) : line[j] # "="
        /\ PyLower(PyStrip(SubSeq(line, k + 1, Len(line) - k))) \in doe_titles

C10_HeaderRecognition ==
    /\ \A i \in 1..Len(page_lines) :
          LET line == page_lines[i]
          IN  /\ detect_general_title(line) =>
                    (detect_doe_header(line) <=> EnclosedName(line) \in doe_titles)
              /\ detect_doe_header(line) => detect_general_title(line)
              /\ BalancedDoeVariant(line) => detect_doe_header(line)
    /\ (pc = "scan" /\ line_no = 1) =>
          ( in_doe_header <=>
              /\ detect_general_title(page_lines[1])
              /\ EnclosedName(page_lines[1]) \in doe_titles )

\* the scan has entered the section of a header whose name differs from the
\* DOE name in letter case and has two or more whitespace characters around
C10_Witness ==
    /\ pc = "scan" /\ line_no = 1
    /\ in_doe_header
    /\ BalancedDoeVariant(page_lines[1])
    /\ \E k \in 1..(Len(page_lines[1]) - 1) :
          LET inner == SubSeq(page_lines[1], k + 1, Len(page_lines[1]) - k)
          IN  /\ page_lines[1][k] = "=" /\ page_lines[1][k + 1] # "="
              /\ PyStrip(inner) \notin doe_titles
              /\ Len(inner) >= Len(PyStrip(inner)) + 4

(***************************************************************************)
(* C11: a header that is no DOE header ends the DOE section: once the scan *)
(* has processed such a header it is outside any section, so every line in *)
(* the plan is a header whose nearest preceding header is a DOE header.    *)
(* The code has no branch that clears in_doe_header.                       *)
(***************************************************************************)
\* the nearest header line before line i is a DOE header
NearestHeaderBeforeIsDoe(lines, i) ==
    \E d \in 0..(i - 1) : IsDoeAt(lines, d) /\ NoHeaderBetween(lines, d, i)

C11_OtherHeaderExitsSection ==
    pc = "scan" =>
        /\ ( /\ line_no >= 1
             /\ IsHeaderAt(page_lines, line_no - 1)
             /\ ~IsDoeAt(page_lines, line_no - 1) )
           => ~in_doe_header
        /\ \A x \in Range(lines_to_insert) :
              NearestHeaderBeforeIsDoe(page_lines, x)

(***************************************************************************)
(* C12: main_function saves the page iff the insertion plan is not empty:  *)
(* it returns from the scan without a write exactly when the plan is       *)
(* empty, and otherwise returns through one save of the spliced text; no   *)
(* other step writes a page.                                               *)
(***************************************************************************)
\* the templates of plan[1..k] put above their lines, highest line first, so
\* that no index needs a shift
RECURSIVE SpliceFromEnd(_, _, _)
SpliceFromEnd(lines, plan, k) ==
    IF k = 0 THEN lines
    ELSE SpliceFromEnd(SubSeq(lines, 1, plan[k]) \o <<TEMPLATE_STR>>
                           \o SubSeq(lines, plan[k] + 1, Len(lines)),
                       plan, k - 1)

C12_NoWriteUnlessInserting == pc = "insert" => lines_to_insert # <<>>

C12_SaveStep ==
    /\ (pc = "scan" /\ pc' = "for_page") =>
          /\ lines_to_insert = <<>>
          /\ wiki' = wiki
          /\ revisions' = revisions
    /\ (pc = "insert" /\ pc' = "for_page") =>
          /\ lines_to_insert # <<>>
          /\ revisions' = [revisions EXCEPT ![last_page_seen] = @ + 1]
          /\ wiki' = [wiki EXCEPT ![last_page_seen] =
                         PyJoin(SpliceFromEnd(get_page_text(last_page_seen),
                                              lines_to_insert,
                                              Len(lines_to_insert)))]
    /\ (wiki' # wiki \/ revisions' # revisions) =>
          (pc = "insert" /\ pc' = "for_page")

C12_SavedIffPlanNonEmpty ==
    [](C12_NoWriteUnlessInserting) /\ [][C12_SaveStep]_vars

\* main_function has returned after one save of a page with two templates
C12_Witness ==
    /\ pc = "for_page"
    /\ Len(lines_to_insert) = 2
    /\ revisions[last_page_seen] = 1
    /\ wiki[last_page_seen] = PyJoin(page_lines)
    /\ Len(page_lines) = line_no + 2

(***************************************************************************)
(* C13: at every point of the scan the plan is strictly ascending, and     *)
(* each line number in it is at least 1, greater than the number of the    *)
(* first DOE header of the page, and at most the number of the line just   *)
(* processed; no header before the first DOE header is in the plan.        *)
(***************************************************************************)
DoeHeaders(lines) == {d \in 0..(Len(lines) - 1) : IsDoeAt(lines, d)}

C13_PlanShape ==
    pc = "scan" =>
        /\ \A k \in 1..(Len(lines_to_insert) - 1) :
              lines_to_insert[k] < lines_to_insert[k + 1]
        /\ \A x \in Range(lines_to_insert) :
              /\ x >= 1
              /\ x <= line_no - 1
              /\ \E d \in DoeHeaders(page_lines) : d < x
        /\ \A h \in 0..(Len(page_lines) - 1) :
              (\A d \in DoeHeaders(page_lines) : h <= d)
                  => h \notin Range(lines_to_insert)

\* a header before the first DOE header was passed and two lines are recorded
C13_Witness ==
    /\ ScanDone
    /\ Len(page_lines) >= 4
    /\ IsHeaderAt(page_lines, 0) /\ ~IsDoeAt(page_lines, 0)
    /\ IsDoeAt(page_lines, 1)
    /\ Len(lines_to_insert) = 2
    /\ lines_to_insert[1] = 2

(***************************************************************************)
(* C14: within a run the bookmark is read once, before the listing; the    *)
(* pages are taken one at a time in the order listed, a page being read    *)
(* only when the previous one was scanned and, if need be, saved; and the  *)
(* bookmark is written once, after the last page listed was processed.     *)
(***************************************************************************)
C14_Positions ==
    /\ pc \in {"get_page_text", "scan", "insert"} =>
          /\ page_idx >= 1
          /\ last_page_seen = pages_to_run[page_idx]
    /\ pc \in {"set_page_start", "done"} => page_idx = Len(pages_to_run)
    /\ pc = "get_page_start" => (pages_to_run = <<>> /\ page_idx = 0)

C14_Step ==
    \* the next run starts only when this one has ended
    /\ pc' = "get_page_start" => pc \in {"done", "failed"}
    \* the bookmark is read from the run's first statement and nowhere else
    /\ (pc' # "get_page_start" /\ start_page_title' # start_page_title) =>
          pc = "get_page_start"
    /\ pc' = "pages_from" => pc = "get_page_start"
    \* the listing is requested once, after the read
    /\ (pc' # "get_page_start" /\ pages_to_run' # pages_to_run) => pc = "pages_from"
    /\ (pc = "pages_from" /\ pc' = "for_page") => page_idx' = 0
    \* a page is read only between pages, and it is the next one listed
    /\ pc' = "get_page_text" =>
          /\ pc = "for_page"
          /\ page_idx' = page_idx + 1
          /\ last_page_seen' = pages_to_run[page_idx + 1]
    /\ (pc' # "get_page_start" /\ page_idx' # page_idx) => pc' = "get_page_text"
    \* only the page being processed is written
    /\ \A t \in DOMAIN wiki :
          wiki'[t] # wiki[t] => (pc = "insert" /\ t = last_page_seen)
    \* the bookmark is written by the run's last step, after every page
    /\ (storage_text' # storage_text \/ pc' = "done") =>
          /\ pc = "set_page_start"
          /\ pc' = "done"
          /\ page_idx = Len(pages_to_run)
    /\ pc = "done" => storage_text' = storage_text

C14_RunOrdering == [](C14_Positions) /\ [][C14_Step]_vars

\* a run over a full batch of two pages has saved both and moved the bookmark
C14_Witness ==
    /\ pc = "done"
    /\ Len(pages_to_run) = 2
    /\ page_idx = 2
    /\ revisions[pages_to_run[1]] = 1
    /\ revisions[pages_to_run[2]] = 1
    /\ storage_text = pages_to_run[2]
    /\ start_page_title = <<>>

(***************************************************************************)
(* C15: successful runs that start from an empty bookmark make progress    *)
(* through the collection: no run ends with the non-empty bookmark it      *)
(* started from, and when a run resets the bookmark to empty every page    *)
(* has been processed (no page is left with a DOE section awaiting its     *)
(* template).  The runs are deterministic, so a run that ends with the     *)
(* bookmark it started from is repeated unchanged by every later run and   *)
(* the reset to empty is never reached; the claim's "eventually wraps" is  *)
(* therefore stated by its finite form, the absence of such a run.  With a *)
(* batch size of 1 the inclusive listing returns the bookmarked page       *)
(* alone, 1 < 1 is false, and the bookmark stays on the first title.       *)
(***************************************************************************)
Wrapped == pc = "done" /\ storage_text = <<>>

\* no page of the wiki is left for main_function to edit
AllPagesProcessed ==
    \A t \in DOMAIN wiki : ScanPlan(get_page_text(t)) = <<>>

\* a run has ended leaving the bookmark on the title it was started from
BookmarkStuck ==
    /\ pc = "done"
    /\ storage_text # <<>>
    /\ storage_text = start_page_title

C15_BookmarkProgress ==
    /\ ~BookmarkStuck
    /\ Wrapped => AllPagesProcessed


(***************************************************************************)
(* C16: the space the title pattern allows after the closing marker does   *)
(* not change the classification.  Whenever the first line of the page is  *)
(* a line L that matches the title pattern with nothing after its closing  *)
(* marker, followed by one space, both detectors answer for it what they   *)
(* answer for L, and the scan that has read it is inside a DOE section     *)
(* exactly when L is a DOE header.  The slice of group 0 by the level      *)
(* counts the space as part of the closing marker, so one '=' is left in   *)
(* the name and "== Topic at DOE == " is not a DOE header.                 *)
(***************************************************************************)

\* a title line with nothing after its closing marker, then one space
TitleThenSpace(line) ==
    /\ Len(line) >= 2
    /\ line[Len(line)] = " "
    /\ line[Len(line) - 1] = "="
    /\ detect_general_title(WithoutEndSpace(line))

C16_TrailingSpaceIgnored ==
    (pc = "scan" /\ line_no >= 1 /\ TitleThenSpace(page_lines[1])) =>
        LET L == WithoutEndSpace(page_lines[1])
        IN  /\ detect_general_title(page_lines[1]) = detect_general_title(L)
            /\ detect_doe_header(page_lines[1]) = detect_doe_header(L)
            /\ line_no = 1 => in_doe_header = detect_doe_header(L)

=============================================================================
